---- MODULE Spec2Model ----
(***************************************************************************)
(* PsychroMinder: photo of a psychrometer -> readings -> humidity.         *)
(* Model of App.tsx (session state machine and exemplar buffer),           *)
(* ResultCard.tsx (review state), geminiService.ts (oracle adapter),       *)
(* ImageUploader.tsx (file reads) and the psychrometry functions.          *)
(*                                                                         *)
(* Temperatures are integers in 0.001 degC, relative humidity in 0.1 %,    *)
(* dew point in 0.1 degC, vapour pressure in 0.0001 hPa.                   *)
(***************************************************************************)
EXTENDS Integers, Sequences, FiniteSets, TLC

VARIABLES
    storage,          \* localStorage item 'psychro_training_data' (shared by all tabs)
    now,              \* Date.now(), a logical clock
    mounted,          \* mounted[s]: tab s has the App mounted
    crashed,          \* crashed[s]: a render of tab s threw, React unmounted the tree
    appState,         \* App state, per tab
    image,
    data,
    errorMsg,
    trainingExamples,
    card,             \* ResultCard state of the tab: <<>> when not rendered, <<c>> when rendered
    readers,          \* FileReaders of the tab that have not fired onloadend yet
    calls,            \* generateContent calls of the tab that have not settled yet
    committed,        \* history: ids of the exemplars whose add completed, in commit order
    ev                \* history: the last event

vars == <<storage, now, mounted, crashed, appState, image, data, errorMsg,
          trainingExamples, card, readers, calls, committed, ev>>

----------------------------------------------------------------------------
(* Bounds *)

MaxCommits == 4       \* handleLearn calls in one behaviour (bounds the clock)
MaxPending == 2       \* file reads plus oracle calls pending at once in a tab
MaxReviewCommits == 1 \* handleLearn calls in one behaviour of SpecReview

Tabs == {1, 2}        \* session instances sharing one localStorage

----------------------------------------------------------------------------
(* JavaScript values.  A value is [t, v]; v is meaningful for numbers.     *)

Num(n) == [t |-> "number", v |-> n]
NaN == [t |-> "NaN", v |-> 0]
Undefined == [t |-> "undefined", v |-> 0]
JsNull == [t |-> "null", v |-> 0]
StrNA == [t |-> "string", v |-> 0]          \* the string "n/a"

IsNum(x) == x.t = "number"

\* ToNumber: undefined and a non-numeric string convert to NaN.
ToNumber(x) == IF IsNum(x) THEN x ELSE NaN

\* a > b of JavaScript: false as soon as one side converts to NaN.
Gt(a, b) == IsNum(a) /\ IsNum(b) /\ a.v > b.v

\* Math.abs(a - b) > lim of JavaScript (lim in 0.001).
AbsDiffGt(a, b, lim) ==
    /\ IsNum(a) /\ IsNum(b)
    /\ (IF a.v >= b.v THEN a.v - b.v ELSE b.v - a.v) > lim

\* Option values: null is <<>>, an object x is <<x>>.
None == <<>>
Some(x) == <<x>>
Null == "<null>"      \* null where the other values are strings

\* x / y rounded to the nearest integer, halves away from zero (toFixed).
RoundDiv(x, y) ==
    IF x >= 0 THEN (2 * x + y) \div (2 * y)
    ELSE 0 - ((2 * (0 - x) + y) \div (2 * y))

----------------------------------------------------------------------------
(* utils/psychrometry                                                      *)

\* The temperatures of the model (0.001 degC).
Temps == {0 - 243500, 0, 5000, 15000, 20000, 20005}

\* 6.112 * exp(17.67 t / (t + 243.5)) in 0.0001 hPa, tabulated on Temps.
\* At -243.5 the quotient is -4302.645 / 0 = -Infinity and exp gives 0.
getSaturationVaporPressure(temp) ==
    CASE temp = 0 - 243500 -> 0
      [] temp = 0     -> 61120
      [] temp = 5000  -> 87215
      [] temp = 15000 -> 170405
      [] temp = 20000 -> 233695
      [] temp = 20005 -> 233767

PressureTimesA == 8052     \* A * p = 0.0007947 * 1013.25 hPa/degC, in 0.0001

\* calculateHumidity on numbers; NaN as soon as an argument is not a number.
calculateHumidity(dryTemp, wetTemp) ==
    IF ~(IsNum(dryTemp) /\ IsNum(wetTemp)) THEN NaN
    ELSE LET esWet == getSaturationVaporPressure(wetTemp.v)
             esDry == getSaturationVaporPressure(dryTemp.v)
             diff  == dryTemp.v - wetTemp.v
             Ap    == IF diff >= 0 THEN (diff * PressureTimesA) \div 1000
                      ELSE 0 - (((0 - diff) * PressureTimesA) \div 1000)
             e     == esWet - Ap
             rh    == IF e <= 0 THEN 0
                      ELSE IF e >= esDry THEN 1000
                      ELSE RoundDiv(e * 1000, esDry)
         IN  \* 0 / 0 is NaN, and Math.min, Math.max and toFixed keep it
             IF esDry = 0 /\ e = 0 THEN NaN ELSE Num(rh)

\* Math.log(rh / 100) in 0.0001, tabulated on the humidities Temps produces.
LogPercent(rh) ==
    CASE rh = 1000 -> 0
      [] rh = 557  -> 0 - 5852
      [] rh = 239  -> 0 - 14313
      [] rh = 39   -> 0 - 32442

\* calculateDewPoint followed by parseFloat(dp.toFixed(1)), as the caller
\* does.  rh = 0 gives log(0) = -Infinity, alpha = -Infinity and
\* (b * -Infinity) / (a + Infinity) = NaN.
calculateDewPoint(temp, rh) ==
    IF ~(IsNum(temp) /\ IsNum(rh)) THEN NaN
    ELSE IF rh.v = 0 THEN NaN
    ELSE LET a     == 172700
             alpha == (1727 * temp.v) \div ((237700 + temp.v) \div 100)
                      + LogPercent(rh.v)
         IN  Num(RoundDiv(2377 * alpha, a - alpha))

----------------------------------------------------------------------------
(* Images, as data URLs.  ImgB is a photo whose base64 text alone exceeds  *)
(* the localStorage quota (the uploader accepts files up to 10MB).         *)

ImgA == "data:image/jpeg;base64,AAA"
ImgB == "data:image/png;base64,BBB"
Images == {ImgA, ImgB}
NoUrl == "<undefined>"          \* a missing string property

\* base64Image.replace(/^data:image\/(png|jpeg|jpg|webp);base64,/, "")
StripDataUrl(url) ==
    CASE url = ImgA -> "AAA"
      [] url = ImgB -> "BBB"
      [] OTHER -> url

----------------------------------------------------------------------------
(* TrainingExample, and the values trainingExamples can hold.              *)

\* {id, timestamp, imageUrl, correctedDry, correctedWet}; the id is the
\* decimal string of the clock value t.
TrainingExample(t, img, dry, wet) ==
    [id |-> [t |-> "digits", v |-> t], timestamp |-> Num(t), imageUrl |-> img,
     correctedDry |-> dry, correctedWet |-> wet]

\* The object {} read as a TrainingExample: every property is undefined.
EmptyObject ==
    [id |-> Undefined, timestamp |-> Undefined, imageUrl |-> NoUrl,
     correctedDry |-> Undefined, correctedWet |-> Undefined]

\* A JavaScript value held by trainingExamples: an array, null, or an
\* object that is not an array.
JsArray(items) == [k |-> "array", items |-> items]
JsNullValue == [k |-> "null", items |-> <<>>]
JsObject == [k |-> "object", items |-> <<>>]

IsArray(x) == x.k = "array"

\* The number of entries a buffer holds.
size(x) == IF IsArray(x) THEN Len(x.items) ELSE 0

\* Variant of slice(-n) that keeps every entry.
SliceLastKeepsAll(items, n) == items

\* Variant of slice(-n) that keeps the first n entries, slice(0, n).
SliceLastDropsNewest(items, n) ==
    IF Len(items) <= n THEN items ELSE SubSeq(items, 1, n)

\* arr.slice(-n)
SliceLast(items, n) ==
    IF Len(items) <= n THEN items
    ELSE SubSeq(items, Len(items) - n + 1, Len(items))

----------------------------------------------------------------------------
(* JSON texts.  A text is [kind, val]: kind "garbled" is not JSON,         *)
(* kind "json" carries the value it denotes.  In a JSON object a property  *)
(* is a number token, a string, null, or absent.                           *)

Absent == [t |-> "absent", v |-> 0]
GarbledText == [kind |-> "garbled", val |-> JsNullValue]
JsonText(val) == [kind |-> "json", val |-> val]

\* JSON.stringify of a property: undefined is omitted, NaN becomes null.
StringifyProp(x) ==
    CASE x.t = "undefined" -> Absent
      [] x.t = "NaN" -> JsNull
      [] OTHER -> x

\* JSON.parse of a property; reading an absent property gives undefined.
ParseProp(x) == IF x.t = "absent" THEN Undefined ELSE x

StringifyItem(e) ==
    [id |-> StringifyProp(e.id), timestamp |-> StringifyProp(e.timestamp),
     imageUrl |-> e.imageUrl,
     correctedDry |-> StringifyProp(e.correctedDry),
     correctedWet |-> StringifyProp(e.correctedWet)]

ParseItem(e) ==
    [id |-> ParseProp(e.id), timestamp |-> ParseProp(e.timestamp),
     imageUrl |-> e.imageUrl,
     correctedDry |-> ParseProp(e.correctedDry),
     correctedWet |-> ParseProp(e.correctedWet)]

\* JSON.stringify(updatedExamples)
JSONstringify(x) ==
    JsonText([k |-> x.k, items |-> [i \in 1..Len(x.items) |-> StringifyItem(x.items[i])]])

\* JSON.parse(saved) of a text of kind "json"
JSONparse(text) ==
    [k |-> text.val.k,
     items |-> [i \in 1..Len(text.val.items) |-> ParseItem(text.val.items[i])]]

\* localStorage.setItem throws QuotaExceededError when the text is too long.
ExceedsQuota(text) ==
    \E i \in 1..Len(text.val.items) : text.val.items[i].imageUrl = ImgB

\* The records localStorage can hold before the application first writes:
\* none, text that is not JSON, and JSON that is not an array of exemplars.
InitialRecords ==
    {None, Some(GarbledText), Some(JsonText(JsNullValue)), Some(JsonText(JsObject)),
     Some(JsonText(JsArray(<<StringifyItem(EmptyObject)>>)))}

IsCorrupted(rec) == rec \in InitialRecords

----------------------------------------------------------------------------
(* services/geminiService.ts                                               *)

True == [t |-> "boolean", v |-> 1]
False == [t |-> "boolean", v |-> 0]

\* !x is false for true and for a non-empty string, true for false and undefined.
Truthy(x) == x = True \/ x.t = "string"

\* Error messages.  The two user-facing texts are Ukrainian in the source.
MsgNotPsychrometer == "No psychrometer found in the image"       \* line 123
MsgNoText == "No response text from Gemini"                      \* line 102
MsgSyntaxError == "SyntaxError: Unexpected token"                \* JSON.parse, line 104
MsgTypeError == "TypeError: Cannot read properties"              \* property of null/undefined
MsgNetwork == "Failed to fetch"                                  \* generateContent rejects
MsgDefault == "Could not recognise the readings"                 \* App.tsx line 42

\* How the generateContent call settles: it rejects (message msg), or it
\* resolves with no text, with text that is not JSON, with the text null,
\* or with the text of an object.
Response(kind, msg, isPsychrometer, dryTemp, wetTemp) ==
    [kind |-> kind, msg |-> msg, isPsychrometer |-> isPsychrometer,
     dryTemp |-> dryTemp, wetTemp |-> wetTemp]

NoResponse == Response("none", "", Undefined, Undefined, Undefined)
RespObject(p, d, w) == Response("object", "", p, d, w)

RespGood == RespObject(True, Num(20000), Num(15000))
RespWetAboveDry == RespObject(True, Num(15000), Num(20000))
RespNotPsychrometer == RespObject(False, Num(0), Num(0))
RespNoDry == RespObject(True, Undefined, Num(15000))
RespWetString == RespObject(True, Num(20000), StrNA)
RespNoFlag == RespObject(Undefined, Num(20000), Num(15000))

Responses ==
    {RespGood, RespWetAboveDry, RespNotPsychrometer, RespNoDry, RespWetString, RespNoFlag,
     Response("reject", MsgNetwork, Undefined, Undefined, Undefined),
     Response("reject", "", Undefined, Undefined, Undefined),
     Response("notext", "", Undefined, Undefined, Undefined),
     Response("garbled", "", Undefined, Undefined, Undefined),
     Response("null", "", Undefined, Undefined, Undefined)}

\* The shape {isPsychrometer: boolean, dryTemp: number, wetTemp: number}.
WellFormed(resp) ==
    /\ resp.kind = "object"
    /\ resp.isPsychrometer.t = "boolean"
    /\ IsNum(resp.dryTemp) /\ IsNum(resp.wetTemp)

Returned(d) == [ok |-> TRUE, data |-> Some(d), message |-> ""]
Thrown(m) == [ok |-> FALSE, data |-> None, message |-> m]

\* x.toFixed(1): the number in 0.1; a TypeError when x is not a number.
HasToFixed(x) == IsNum(x)
toFixed1(x) == RoundDiv(x.v, 100)

NoParts == [ok |-> FALSE, exemplar |-> None, target |-> Null, message |-> MsgTypeError]

\* analyzeHygrometer up to the await (lines 32-87): the parts of the
\* request, or the TypeError thrown while building them.
analyzeHygrometerRequest(base64Image, examples) ==
    IF base64Image = Null \/ examples.k = "null" THEN NoParts
    ELSE IF IsArray(examples) /\ Len(examples.items) > 0
    THEN LET ex == examples.items[Len(examples.items)]
         IN  IF ex.imageUrl = NoUrl \/ ~HasToFixed(ex.correctedDry)
                \/ ~HasToFixed(ex.correctedWet)
             THEN NoParts
             ELSE [ok |-> TRUE,
                   exemplar |-> Some([data |-> StripDataUrl(ex.imageUrl),
                                      dry |-> toFixed1(ex.correctedDry),
                                      wet |-> toFixed1(ex.correctedWet)]),
                   target |-> StripDataUrl(base64Image), message |-> ""]
    ELSE [ok |-> TRUE, exemplar |-> None, target |-> StripDataUrl(base64Image),
          message |-> ""]

\* Variant of lines 101-127 without the isPsychrometer check.
analyzeHygrometerResultUnchecked(resp) ==
    CASE resp.kind = "reject" -> Thrown(resp.msg)
      [] resp.kind = "notext" -> Thrown(MsgNoText)
      [] resp.kind = "garbled" -> Thrown(MsgSyntaxError)
      [] resp.kind = "null" -> Thrown(MsgTypeError)
      [] OTHER -> Returned([isPsychrometer |-> resp.isPsychrometer,
                            dryTemp |-> resp.dryTemp, wetTemp |-> resp.wetTemp])

\* Variant of lines 101-127 that clamps wetTemp to dryTemp (the clamp the
\* comment of lines 113-115 considers).
analyzeHygrometerResultClamped(resp) ==
    CASE resp.kind = "reject" -> Thrown(resp.msg)
      [] resp.kind = "notext" -> Thrown(MsgNoText)
      [] resp.kind = "garbled" -> Thrown(MsgSyntaxError)
      [] resp.kind = "null" -> Thrown(MsgTypeError)
      [] OTHER ->
           IF ~Truthy(resp.isPsychrometer) THEN Thrown(MsgNotPsychrometer)
           ELSE Returned([isPsychrometer |-> resp.isPsychrometer,
                          dryTemp |-> resp.dryTemp,
                          wetTemp |-> IF Gt(resp.wetTemp, resp.dryTemp)
                                      THEN resp.dryTemp ELSE resp.wetTemp])

\* analyzeHygrometer after the await (lines 101-127).
analyzeHygrometerResult(resp) ==
    CASE resp.kind = "reject" -> Thrown(resp.msg)
      [] resp.kind = "notext" -> Thrown(MsgNoText)
      [] resp.kind = "garbled" -> Thrown(MsgSyntaxError)
      [] resp.kind = "null" -> Thrown(MsgTypeError)
      [] OTHER ->
           IF ~Truthy(resp.isPsychrometer) THEN Thrown(MsgNotPsychrometer)
           ELSE Returned([isPsychrometer |-> resp.isPsychrometer,
                          dryTemp |-> resp.dryTemp, wetTemp |-> resp.wetTemp])

----------------------------------------------------------------------------
(* components/ResultCard.tsx                                               *)

MsgWetAboveDry == "Wet bulb temperature cannot exceed dry bulb"   \* line 27
ChangeThreshold == 10      \* 0.01 degC, lines 44-45

\* The useState initial values (lines 13-21).
InitialCard(initialData) ==
    [readings |-> initialData,
     result |-> [isPsychrometer |-> initialData.isPsychrometer,
                 dryTemp |-> initialData.dryTemp, wetTemp |-> initialData.wetTemp,
                 relativeHumidity |-> Num(0), dewPoint |-> Num(0)],
     isCorrected |-> FALSE, hasLearned |-> FALSE, validationError |-> Null]

\* Variant of the effect that validates with >= instead of >.
RecalculateStrict(c, initialData) ==
    IF Gt(c.readings.wetTemp, c.readings.dryTemp) \/ c.readings.wetTemp = c.readings.dryTemp
    THEN [c EXCEPT !.validationError = MsgWetAboveDry,
                   !.result = [c.result EXCEPT !.relativeHumidity = Num(0),
                                               !.dewPoint = Undefined]]
    ELSE [c EXCEPT !.validationError = Null]

\* Variant of the effect without the validation of lines 26-32.
RecalculateNoValidation(c, initialData) ==
    LET rh == IF Gt(c.readings.wetTemp, c.readings.dryTemp) THEN Num(1000)
              ELSE calculateHumidity(c.readings.dryTemp, c.readings.wetTemp)
        dp == calculateDewPoint(c.readings.dryTemp, rh)
        hasChanged ==
            \/ AbsDiffGt(c.readings.dryTemp, initialData.dryTemp, ChangeThreshold)
            \/ AbsDiffGt(c.readings.wetTemp, initialData.wetTemp, ChangeThreshold)
    IN  [c EXCEPT !.validationError = Null,
                  !.result = [isPsychrometer |-> c.readings.isPsychrometer,
                              dryTemp |-> c.readings.dryTemp,
                              wetTemp |-> c.readings.wetTemp,
                              relativeHumidity |-> rh, dewPoint |-> dp],
                  !.isCorrected = hasChanged,
                  !.hasLearned = IF hasChanged THEN FALSE ELSE c.hasLearned]

\* Variant of the effect that computes from initialData instead of readings.
RecalculateFromInitial(c, initialData) ==
    IF Gt(c.readings.wetTemp, c.readings.dryTemp)
    THEN [c EXCEPT !.validationError = MsgWetAboveDry,
                   !.result = [c.result EXCEPT !.relativeHumidity = Num(0),
                                               !.dewPoint = Undefined]]
    ELSE LET rh == calculateHumidity(initialData.dryTemp, initialData.wetTemp)
             dp == calculateDewPoint(initialData.dryTemp, rh)
             hasChanged ==
                 \/ AbsDiffGt(c.readings.dryTemp, initialData.dryTemp, ChangeThreshold)
                 \/ AbsDiffGt(c.readings.wetTemp, initialData.wetTemp, ChangeThreshold)
         IN  [c EXCEPT !.validationError = Null,
                       !.result = [isPsychrometer |-> c.readings.isPsychrometer,
                                   dryTemp |-> c.readings.dryTemp,
                                   wetTemp |-> c.readings.wetTemp,
                                   relativeHumidity |-> rh, dewPoint |-> dp],
                       !.isCorrected = hasChanged,
                       !.hasLearned = IF hasChanged THEN FALSE ELSE c.hasLearned]

\* The effect on [readings, initialData] (lines 24-54).
Recalculate(c, initialData) ==
    IF Gt(c.readings.wetTemp, c.readings.dryTemp)
    THEN [c EXCEPT !.validationError = MsgWetAboveDry,
                   !.result = [c.result EXCEPT !.relativeHumidity = Num(0),
                                               !.dewPoint = Undefined]]
    ELSE LET rh == calculateHumidity(c.readings.dryTemp, c.readings.wetTemp)
             dp == calculateDewPoint(c.readings.dryTemp, rh)
             hasChanged ==
                 \/ AbsDiffGt(c.readings.dryTemp, initialData.dryTemp, ChangeThreshold)
                 \/ AbsDiffGt(c.readings.wetTemp, initialData.wetTemp, ChangeThreshold)
         IN  [c EXCEPT !.validationError = Null,
                       !.result = [isPsychrometer |-> c.readings.isPsychrometer,
                                   dryTemp |-> c.readings.dryTemp,
                                   wetTemp |-> c.readings.wetTemp,
                                   relativeHumidity |-> rh, dewPoint |-> dp],
                       !.isCorrected = hasChanged,
                       !.hasLearned = IF hasChanged THEN FALSE ELSE c.hasLearned]

\* What the user can type into an input.
Typed == {"", "-", "abc", "5", "20", "20.005", "-243.5"}

parseFloat(value) ==
    CASE value = "5" -> Num(5000)
      [] value = "20" -> Num(20000)
      [] value = "20.005" -> Num(20005)
      [] value = "-243.5" -> Num(0 - 243500)
      [] OTHER -> NaN

\* handleChange (lines 56-63): the new readings, or the old ones when the
\* handler returns without setReadings.
handleChange(readings, field, value) ==
    IF value = "" \/ value = "-" THEN readings
    ELSE LET num == parseFloat(value)
         IN  IF num.t = "NaN" THEN readings
             ELSE IF field = "dryTemp" THEN [readings EXCEPT !.dryTemp = num]
             ELSE [readings EXCEPT !.wetTemp = num]

\* What the card shows (lines 128-176).
LearnButtonShown(c) == c.isCorrected /\ ~c.hasLearned /\ c.validationError = Null
HumidityShown(c) == c.validationError = Null
DewPointShown(c) == c.validationError = Null /\ c.result.dewPoint # Undefined

----------------------------------------------------------------------------
(* App.tsx                                                                 *)

Capacity == 3              \* slice(-3), line 66

EmptyBuffer == JsArray(<<>>)

\* Variant of the load effect that never calls setTrainingExamples.
loadDiscards(saved) == EmptyBuffer

\* The load effect (lines 19-28): the value of trainingExamples after it.
load(saved) ==
    IF saved = None THEN EmptyBuffer
    ELSE IF saved[1].kind = "json" THEN JSONparse(saved[1])
    ELSE EmptyBuffer

\* The header reads trainingExamples.length (line 87): a TypeError on null.
RenderThrows(examples) == examples.k = "null"

\* Variant of handleLearn that persists trainingExamples, the buffer of the
\* render, instead of updatedExamples.
handleLearnStale(img, examples, correctedDry, correctedWet, t, saved) ==
    IF img = Null
    THEN [examples |-> examples, saved |-> saved, threw |-> FALSE, wrote |-> FALSE]
    ELSE IF ~IsArray(examples)
    THEN [examples |-> examples, saved |-> saved, threw |-> TRUE, wrote |-> FALSE]
    ELSE LET newExample == TrainingExample(t, img, correctedDry, correctedWet)
             updatedExamples ==
                 JsArray(SliceLast(Append(examples.items, newExample), Capacity))
             text == JSONstringify(examples)
         IN  IF ExceedsQuota(text)
             THEN [examples |-> updatedExamples, saved |-> saved,
                   threw |-> TRUE, wrote |-> FALSE]
             ELSE [examples |-> updatedExamples, saved |-> Some(text),
                   threw |-> FALSE, wrote |-> TRUE]

\* handleLearn (lines 54-70): the new trainingExamples, the new persisted
\* record, whether the handler threw and whether setItem completed.
handleLearn(img, examples, correctedDry, correctedWet, t, saved) ==
    IF img = Null
    THEN [examples |-> examples, saved |-> saved, threw |-> FALSE, wrote |-> FALSE]
    ELSE IF ~IsArray(examples)
    THEN [examples |-> examples, saved |-> saved, threw |-> TRUE, wrote |-> FALSE]
    ELSE LET newExample == TrainingExample(t, img, correctedDry, correctedWet)
             updatedExamples ==
                 JsArray(SliceLast(Append(examples.items, newExample), Capacity))
             text == JSONstringify(updatedExamples)
         IN  IF ExceedsQuota(text)
             THEN [examples |-> updatedExamples, saved |-> saved,
                   threw |-> TRUE, wrote |-> FALSE]
             ELSE [examples |-> updatedExamples, saved |-> Some(text),
                   threw |-> FALSE, wrote |-> TRUE]

Event(op, s, resp, ok) == [op |-> op, tab |-> s, resp |-> resp, ok |-> ok]

\* What a FileReader delivers: a data URL, or null after a read error.
Files == Images \cup {Null}

Pending(s) == Cardinality(readers[s]) + Cardinality(calls[s])

Live(s) == mounted[s] /\ ~crashed[s]

Init ==
    /\ storage \in InitialRecords
    /\ now = 0
    /\ mounted = [s \in Tabs |-> FALSE]
    /\ crashed = [s \in Tabs |-> FALSE]
    /\ appState = [s \in Tabs |-> "IDLE"]
    /\ image = [s \in Tabs |-> Null]
    /\ data = [s \in Tabs |-> None]
    /\ errorMsg = [s \in Tabs |-> Null]
    /\ trainingExamples = [s \in Tabs |-> EmptyBuffer]
    /\ card = [s \in Tabs |-> None]
    /\ readers = [s \in Tabs |-> {}]
    /\ calls = [s \in Tabs |-> {}]
    /\ committed = <<>>
    /\ ev = Event("init", 0, NoResponse, FALSE)

\* The App mounts (lines 10-28): initial state, then the load effect.
Mount(s) ==
    /\ mounted' = [mounted EXCEPT ![s] = TRUE]
    /\ appState' = [appState EXCEPT ![s] = "IDLE"]
    /\ image' = [image EXCEPT ![s] = Null]
    /\ data' = [data EXCEPT ![s] = None]
    /\ errorMsg' = [errorMsg EXCEPT ![s] = Null]
    /\ trainingExamples' = [trainingExamples EXCEPT ![s] = load(storage)]
    /\ crashed' = [crashed EXCEPT ![s] = RenderThrows(load(storage))]
    /\ card' = [card EXCEPT ![s] = None]
    /\ readers' = [readers EXCEPT ![s] = {}]
    /\ calls' = [calls EXCEPT ![s] = {}]
    /\ UNCHANGED <<storage, now, committed>>

\* The page is opened in tab s.
Open(s) ==
    /\ ~mounted[s]
    /\ Mount(s)
    /\ ev' = Event("open", s, NoResponse, TRUE)

\* The page of tab s is reloaded: the process restarts and loads again.
Reload(s) ==
    /\ mounted[s]
    /\ Mount(s)
    /\ ev' = Event("reload", s, NoResponse, TRUE)

\* processFile (ImageUploader.tsx lines 20-43) for a file that passes the
\* type and size checks: a FileReader starts; its onloadend will call the
\* handleImageSelected of this render, which closes over trainingExamples.
processFile(s, file) ==
    /\ Live(s)
    /\ appState[s] = "IDLE"
    /\ readers' = [readers EXCEPT ![s] = @ \cup {[file |-> file,
                                                  examples |-> trainingExamples[s]]}]
    /\ ev' = Event("pick", s, NoResponse, TRUE)
    /\ UNCHANGED <<storage, now, mounted, crashed, appState, image, data, errorMsg,
                   trainingExamples, card, calls, committed>>

\* reader.onloadend fires: handleImageSelected (lines 30-37) up to the await.
\* analyzeHygrometer is async: an exception while the request is built
\* (lines 32-87) rejects its promise, so the catch of line 40 runs only
\* after setAppState(ANALYZING); such a call is pending with request.ok
\* FALSE until its rejection is delivered.
handleImageSelected(s, r) ==
    /\ Live(s)
    /\ r \in readers[s]
    /\ LET req == analyzeHygrometerRequest(r.file, r.examples)
       IN  /\ readers' = [readers EXCEPT ![s] = @ \ {r}]
           /\ image' = [image EXCEPT ![s] = r.file]
           /\ card' = [card EXCEPT ![s] = None]
           /\ appState' = [appState EXCEPT ![s] = "ANALYZING"]
           /\ errorMsg' = [errorMsg EXCEPT ![s] = Null]
           /\ calls' = [calls EXCEPT ![s] = @ \cup {[image |-> r.file,
                                                     request |-> req]}]
           /\ ev' = Event("selected", s, NoResponse, req.ok)
    /\ UNCHANGED <<storage, now, mounted, crashed, data, trainingExamples, committed>>

\* The card after setData(d) and setAppState(SUCCESS): a mounted card keeps
\* its state and its effect runs for the new initialData; otherwise the
\* card mounts when line 168 renders it.
CardOnSuccess(s, d) ==
    IF card[s] # None THEN Some(Recalculate(card[s][1], d))
    ELSE IF image[s] # Null THEN Some(Recalculate(InitialCard(d), d))
    ELSE None

\* Variant of line 42 that shows err.message as it is.
UserMessageRaw(message) == message

\* err.message || <default text> (line 42)
UserMessage(message) == IF message = "" THEN MsgDefault ELSE message

\* What analyzeHygrometer gives for call c when generateContent settles
\* with resp; a call whose request could not be built was never sent and
\* rejects with the exception of the build.
Outcome(c, resp) ==
    IF c.request.ok THEN analyzeHygrometerResult(resp) ELSE Thrown(c.request.message)

\* Variant of Settle that also records every successful extraction as an
\* exemplar in trainingExamples.
SettleRecordsExample(s, c, resp) ==
    /\ Live(s)
    /\ c \in calls[s]
    /\ c.request.ok <=> resp # NoResponse
    /\ LET out == Outcome(c, resp)
       IN  /\ calls' = [calls EXCEPT ![s] = @ \ {c}]
           /\ IF out.ok
              THEN /\ data' = [data EXCEPT ![s] = out.data]
                   /\ appState' = [appState EXCEPT ![s] = "SUCCESS"]
                   /\ card' = [card EXCEPT ![s] = CardOnSuccess(s, out.data[1])]
                   /\ errorMsg' = errorMsg
                   /\ trainingExamples' =
                        [trainingExamples EXCEPT ![s] =
                           IF IsArray(@)
                           THEN JsArray(SliceLast(Append(@.items,
                                    TrainingExample(now, c.image, out.data[1].dryTemp,
                                                    out.data[1].wetTemp)), Capacity))
                           ELSE @]
              ELSE /\ errorMsg' = [errorMsg EXCEPT ![s] = UserMessage(out.message)]
                   /\ appState' = [appState EXCEPT ![s] = "ERROR"]
                   /\ card' = [card EXCEPT ![s] = None]
                   /\ data' = data
                   /\ trainingExamples' = trainingExamples
           /\ ev' = Event("settle", s, resp, out.ok)
    /\ UNCHANGED <<storage, now, mounted, crashed, image, readers, committed>>

\* Variant of Settle whose catch omits setAppState(AppState.ERROR).
SettleKeepsState(s, c, resp) ==
    /\ Live(s)
    /\ c \in calls[s]
    /\ c.request.ok <=> resp # NoResponse
    /\ LET out == Outcome(c, resp)
       IN  /\ calls' = [calls EXCEPT ![s] = @ \ {c}]
           /\ IF out.ok
              THEN /\ data' = [data EXCEPT ![s] = out.data]
                   /\ appState' = [appState EXCEPT ![s] = "SUCCESS"]
                   /\ card' = [card EXCEPT ![s] = CardOnSuccess(s, out.data[1])]
                   /\ errorMsg' = errorMsg
              ELSE /\ errorMsg' = [errorMsg EXCEPT ![s] = UserMessage(out.message)]
                   /\ appState' = appState
                   /\ card' = card
                   /\ data' = data
           /\ ev' = Event("settle", s, resp, out.ok)
    /\ UNCHANGED <<storage, now, mounted, crashed, image, trainingExamples, readers,
                   committed>>

\* The promise of call c settles: the rest of analyzeHygrometer, then
\* handleImageSelected lines 38-44.
Settle(s, c, resp) ==
    /\ Live(s)
    /\ c \in calls[s]
    /\ c.request.ok <=> resp # NoResponse
    /\ LET out == Outcome(c, resp)
       IN  /\ calls' = [calls EXCEPT ![s] = @ \ {c}]
           /\ IF out.ok
              THEN /\ data' = [data EXCEPT ![s] = out.data]
                   /\ appState' = [appState EXCEPT ![s] = "SUCCESS"]
                   /\ card' = [card EXCEPT ![s] = CardOnSuccess(s, out.data[1])]
                   /\ errorMsg' = errorMsg
              ELSE /\ errorMsg' = [errorMsg EXCEPT ![s] = UserMessage(out.message)]
                   /\ appState' = [appState EXCEPT ![s] = "ERROR"]
                   /\ card' = [card EXCEPT ![s] = None]
                   /\ data' = data
           /\ ev' = Event("settle", s, resp, out.ok)
    /\ UNCHANGED <<storage, now, mounted, crashed, image, trainingExamples, readers,
                   committed>>

\* Variant of handleReset that omits setImage(null).
handleResetKeepsImage(s) ==
    /\ Live(s)
    /\ appState[s] = "ERROR" \/ card[s] # None
    /\ appState' = [appState EXCEPT ![s] = "IDLE"]
    /\ data' = [data EXCEPT ![s] = None]
    /\ errorMsg' = [errorMsg EXCEPT ![s] = Null]
    /\ card' = [card EXCEPT ![s] = None]
    /\ ev' = Event("reset", s, NoResponse, TRUE)
    /\ UNCHANGED <<storage, now, mounted, crashed, image, trainingExamples, readers,
                   calls, committed>>

\* handleReset (lines 47-52), from the button of the error panel or of the card.
handleReset(s) ==
    /\ Live(s)
    /\ appState[s] = "ERROR" \/ card[s] # None
    /\ appState' = [appState EXCEPT ![s] = "IDLE"]
    /\ image' = [image EXCEPT ![s] = Null]
    /\ data' = [data EXCEPT ![s] = None]
    /\ errorMsg' = [errorMsg EXCEPT ![s] = Null]
    /\ card' = [card EXCEPT ![s] = None]
    /\ ev' = Event("reset", s, NoResponse, TRUE)
    /\ UNCHANGED <<storage, now, mounted, crashed, trainingExamples, readers, calls,
                   committed>>

\* The user types value into the input of field: handleChange, then the
\* effect when setReadings was called.  A value the handler ignores
\* changes nothing.
Edit(s, field, value) ==
    /\ Live(s)
    /\ card[s] # None
    /\ LET c == card[s][1]
           readings == handleChange(c.readings, field, value)
           called == ~(value = "" \/ value = "-") /\ parseFloat(value).t # "NaN"
       IN  IF called
           THEN /\ card' = [card EXCEPT ![s] =
                              Some(Recalculate([c EXCEPT !.readings = readings],
                                               data[s][1]))]
                /\ ev' = Event("edit", s, NoResponse, TRUE)
           ELSE UNCHANGED <<card, ev>>
    /\ UNCHANGED <<storage, now, mounted, crashed, appState, image, data, errorMsg,
                   trainingExamples, readers, calls, committed>>

\* The Learn button is clicked: handleLearnClick (ResultCard.tsx lines
\* 65-69) calling handleLearn.
handleLearnClick(s) ==
    /\ Live(s)
    /\ card[s] # None
    /\ LearnButtonShown(card[s][1])
    /\ LET c == card[s][1]
           r == handleLearn(image[s], trainingExamples[s], c.readings.dryTemp,
                            c.readings.wetTemp, now + 1, storage)
       IN  IF c.validationError # Null
           THEN /\ ev' = Event("learn", s, NoResponse, FALSE)
                /\ UNCHANGED <<storage, now, trainingExamples, card, committed>>
           ELSE /\ now' = now + 1
                /\ trainingExamples' = [trainingExamples EXCEPT ![s] = r.examples]
                /\ storage' = r.saved
                /\ card' = [card EXCEPT ![s] =
                              IF r.threw THEN card[s]
                              ELSE Some([c EXCEPT !.hasLearned = TRUE])]
                /\ committed' = IF r.wrote THEN Append(committed, now + 1)
                                ELSE committed
                /\ ev' = Event("learn", s, NoResponse, r.wrote)
    /\ UNCHANGED <<mounted, crashed, appState, image, data, errorMsg, readers, calls>>

Fields == {"dryTemp", "wetTemp"}

\* Acquisition, extraction and review in one session instance: every
\* file, every oracle response, every typed value, and files picked while
\* earlier reads and calls are still pending.
Next ==
    \/ Open(1)
    \/ Reload(1)
    \/ \E file \in Files : Pending(1) < MaxPending /\ processFile(1, file)
    \/ \E r \in readers[1] : handleImageSelected(1, r)
    \/ \E c \in calls[1], resp \in Responses \cup {NoResponse} : Settle(1, c, resp)
    \/ handleReset(1)
    \/ \E field \in Fields, value \in Typed : Edit(1, field, value)

Spec == Init /\ [][Next]_vars

\* The exemplar store in one session instance: up to MaxCommits commits,
\* reloads in between; the user waits for each extraction before picking
\* the next file.
StoreResponses == {RespGood, RespNotPsychrometer, RespWetAboveDry, RespNoDry}
StoreTyped == {"-", "5"}

NextStore ==
    \/ Open(1)
    \/ Reload(1)
    \/ \E file \in Files : Pending(1) = 0 /\ processFile(1, file)
    \/ \E r \in readers[1] : handleImageSelected(1, r)
    \/ \E c \in calls[1], resp \in StoreResponses \cup {NoResponse} : Settle(1, c, resp)
    \/ handleReset(1)
    \/ \E field \in Fields, value \in StoreTyped : Edit(1, field, value)
    \/ now < MaxCommits /\ handleLearnClick(1)

SpecStore == Init /\ [][NextStore]_vars

\* Two session instances on one localStorage.
SharedTyped == {"5"}

NextShared ==
    \E s \in Tabs :
        \/ Open(s)
        \/ Pending(s) = 0 /\ processFile(s, ImgA)
        \/ \E r \in readers[s] : handleImageSelected(s, r)
        \/ \E c \in calls[s], resp \in {RespGood, NoResponse} : Settle(s, c, resp)
        \/ \E field \in Fields, value \in SharedTyped : Edit(s, field, value)
        \/ now < MaxCommits /\ handleLearnClick(s)

SpecShared == Init /\ [][NextShared]_vars

\* Review and commit in one session instance while file reads and oracle
\* calls may overlap: the oracle reads 20 / 15 and the user types values on
\* both sides of the readings and of the 0.01 threshold.
ReviewTyped == {"5", "20.005"}

NextReview ==
    \/ Open(1)
    \/ \E file \in Images : Pending(1) < MaxPending /\ processFile(1, file)
    \/ \E r \in readers[1] : handleImageSelected(1, r)
    \/ \E c \in calls[1], resp \in {RespGood, NoResponse} : Settle(1, c, resp)
    \/ handleReset(1)
    \/ \E field \in Fields, value \in ReviewTyped : Edit(1, field, value)
    \/ now < MaxReviewCommits /\ handleLearnClick(1)

SpecReview == Init /\ [][NextReview]_vars

\* Acquisition and extraction in one session instance that is not
\* reloaded, with the promise of every pending call eventually settled:
\* generateContent resolves or rejects, and the event loop then runs the
\* continuation of the await.
SettleSome == \E c \in calls[1], resp \in Responses \cup {NoResponse} : Settle(1, c, resp)

NextLive ==
    \/ Open(1)
    \/ \E file \in Files : Pending(1) < MaxPending /\ processFile(1, file)
    \/ \E r \in readers[1] : handleImageSelected(1, r)
    \/ SettleSome
    \/ handleReset(1)

SpecLive == Init /\ [][NextLive]_vars /\ WF_vars(SettleSome)

----------------------------------------------------------------------------
(* Properties                                                              *)

Buffer(s) == trainingExamples[s].items
Last(seq) == seq[Len(seq)]

\* C1: whatever the sequence of loads, commits, image selections, edits and
\* resets, the in-memory exemplar buffer holds at most 3 entries.
C1_BufferAtMostThree == \A s \in Tabs : size(trainingExamples[s]) <= 3

\* C1 witness: a fourth commit has just been made and the buffer holds 3.
C1_Witness ==
    ev.op = "learn" /\ now >= 4 /\ size(trainingExamples[1]) = 3

\* C2: a commit appends the new exemplar (the reviewed values, the current
\* image) at the end, keeps the entries already there in their order, and
\* when the buffer already holds 3 drops exactly the oldest one.
C2_AddIsFifo ==
    [][\A s \in Tabs :
          (ev'.op = "learn" /\ ev'.tab = s /\ now' # now /\ image[s] # Null
             /\ IsArray(trainingExamples[s]))
          => LET old == Buffer(s)
                 new == trainingExamples'[s].items
                 e   == Last(new)
             IN  /\ e.timestamp = Num(now')
                 /\ e.imageUrl = image[s]
                 /\ e.correctedDry = card[s][1].readings.dryTemp
                 /\ e.correctedWet = card[s][1].readings.wetTemp
                 /\ IF Len(old) < 3 THEN new = Append(old, e)
                    ELSE new = <<old[2], old[3], e>>]_vars

\* C2 witness: exemplars #1..#4 were committed in sequence to an empty
\* buffer and the buffer is <#2, #3, #4>.
C2_Witness ==
    /\ ev.op = "learn" /\ now = 4 /\ committed = <<1, 2, 3, 4>>
    /\ Len(Buffer(1)) = 3
    /\ \A i \in 1..3 : Buffer(1)[i].timestamp = Num(i + 1)

\* C3: after an add that completed, a restart followed by the load yields
\* a buffer that contains the added exemplar with the same correctedDry,
\* correctedWet and image.
C3_RoundTrip ==
    [][\A s \in Tabs :
          (ev.op = "learn" /\ ev.ok /\ ev.tab = s /\ ev'.op = "reload" /\ ev'.tab = s)
          => LET e == Last(Buffer(s))
             IN  /\ IsArray(trainingExamples'[s])
                 /\ \E i \in 1..Len(trainingExamples'[s].items) :
                        LET x == trainingExamples'[s].items[i]
                        IN  /\ x.correctedDry = e.correctedDry
                            /\ x.correctedWet = e.correctedWet
                            /\ x.imageUrl = e.imageUrl]_vars

\* C3 witness: the page was reloaded and the buffer holds a committed exemplar.
C3_Witness ==
    /\ ev.op = "reload" /\ committed # <<>>
    /\ \E i \in 1..Len(Buffer(1)) : Buffer(1)[i].timestamp = Num(Last(committed))

\* C4 (as claimed): a load with the persisted record absent, unparseable,
\* or parseable but not a sequence of exemplars does not fail and leaves
\* the in-memory buffer empty.
C4_LoadToleratesCorruption ==
    (ev.op \in {"open", "reload"} /\ IsCorrupted(storage))
    => (~crashed[ev.tab] /\ trainingExamples[ev.tab] = EmptyBuffer)

\* C5: the persisted record changes only by an add, which replaces it by
\* the whole new buffer; after every completed add the persisted record
\* equals the in-memory buffer.
C5_WholeBufferReplace ==
    [][\A s \in Tabs :
          /\ storage' # storage => (ev'.op = "learn" /\ ev'.ok)
          /\ (ev'.op = "learn" /\ ev'.ok /\ ev'.tab = s /\ now' # now)
             => /\ storage' # None
                /\ storage'[1].kind = "json"
                /\ JSONparse(storage'[1]) = trainingExamples'[s]
                /\ Last(trainingExamples'[s].items).timestamp = Num(now')]_vars

\* C5 witness: an add completed on a full buffer.
C5_Witness ==
    ev.op = "learn" /\ ev.ok /\ Len(Buffer(1)) = 3 /\ Len(committed) >= 4

IsExemplar(x) == x.timestamp.t = "number"

\* C6 (as claimed): under every interleaving of adds by the session
\* instances, the exemplars of the persisted record are the last 3 of all
\* committed exemplars, in commit order.
C6_NoLostUpdate ==
    committed # <<>>
    => LET items == SelectSeq(storage[1].val.items, IsExemplar)
           n == Len(committed)
           k == IF n < 3 THEN n ELSE 3
       IN  /\ Len(items) = k
           /\ \A i \in 1..k : items[i].timestamp = Num(committed[n - k + i])

\* C7: when the oracle answers isPsychrometer = false the session goes to
\* ERROR with the subject-not-recognized message, and the reading the
\* session holds is not replaced.
C7_NotPsychrometerFails ==
    [][\A s \in Tabs :
          (ev'.op = "settle" /\ ev'.tab = s /\ ev'.resp.kind = "object"
             /\ ev'.resp.isPsychrometer = False)
          => /\ appState'[s] = "ERROR"
             /\ errorMsg'[s] = MsgNotPsychrometer
             /\ data'[s] = data[s]]_vars

\* C7 witness: the response {isPsychrometer: false, dryTemp: 0, wetTemp: 0}
\* has put the session in ERROR.
C7_Witness ==
    ev.op = "settle" /\ ev.resp = RespNotPsychrometer /\ appState[1] = "ERROR"

\* C8 (as claimed): an oracle response that deviates from the shape
\* {isPsychrometer: boolean, dryTemp: number, wetTemp: number} puts the
\* session in ERROR, never in SUCCESS.
C8_MalformedResponseFails ==
    (ev.op = "settle" /\ ev.resp.kind = "object" /\ ~WellFormed(ev.resp))
    => appState[ev.tab] = "ERROR"

\* C9: a well-formed response with isPsychrometer = true and wetTemp >
\* dryTemp puts the session in SUCCESS with dryTemp and wetTemp exactly as
\* the oracle gave them.
C9_WetAboveDryPassedThrough ==
    (ev.op = "settle" /\ WellFormed(ev.resp) /\ ev.resp.isPsychrometer = True
       /\ ev.resp.wetTemp.v > ev.resp.dryTemp.v)
    => /\ appState[ev.tab] = "SUCCESS"
       /\ data[ev.tab] # None
       /\ data[ev.tab][1].dryTemp = ev.resp.dryTemp
       /\ data[ev.tab][1].wetTemp = ev.resp.wetTemp

\* C9 witness: the session is in SUCCESS with wetTemp 20 above dryTemp 15.
C9_Witness ==
    /\ ev.op = "settle" /\ ev.resp = RespWetAboveDry /\ appState[1] = "SUCCESS"
    /\ data[1][1].wetTemp.v > data[1][1].dryTemp.v

\* C10: in every review state the validation error is active exactly when
\* both readings are numbers with wetTemp > dryTemp, and while it is
\* active the dew point is undefined and neither the relative humidity nor
\* the dew point is shown.
C10_ValidationIffWetAboveDry ==
    \A s \in Tabs :
        card[s] # None
        => LET c == card[s][1]
               wetAboveDry == /\ IsNum(c.readings.wetTemp) /\ IsNum(c.readings.dryTemp)
                              /\ c.readings.wetTemp.v > c.readings.dryTemp.v
           IN  /\ (c.validationError # Null) <=> wetAboveDry
               /\ c.validationError # Null
                  => /\ c.result.dewPoint = Undefined
                     /\ c.result.relativeHumidity = Num(0)
                     /\ ~HumidityShown(c)
                     /\ ~DewPointShown(c)

\* C10 witness: an edit has made wetTemp exceed dryTemp and the error shows.
C10_Witness ==
    /\ ev.op = "edit" /\ card[1] # None
    /\ card[1][1].validationError # Null
    /\ card[1][1].readings.wetTemp.v > card[1][1].readings.dryTemp.v

\* The physical inconsistency of a card: the validation error is set, or
\* the readings are numbers with wetTemp > dryTemp.
Inconsistent(c) ==
    c.validationError # Null \/ Gt(c.readings.wetTemp, c.readings.dryTemp)

\* C11: while the wet-above-dry validation error is active in a session, a
\* commit by that session creates no exemplar: the clock, the in-memory
\* buffer, the persisted record, the commit history and the card (with
\* its hasLearned flag) are unchanged.
C11_CommitRejectedWhileInvalid ==
    [][\A s \in Tabs :
          (card[s] # None /\ Inconsistent(card[s][1])
             /\ ev'.op = "learn" /\ ev'.tab = s)
          => UNCHANGED <<now, trainingExamples, storage, committed, card>>]_vars

\* C11 witness: the error is active over a correction that is not yet
\* committed (isCorrected, not hasLearned), so only the error withholds
\* the commit.
C11_Witness ==
    /\ card[1] # None
    /\ card[1][1].validationError # Null
    /\ card[1][1].isCorrected /\ ~card[1][1].hasLearned
    /\ LearnButtonShown([card[1][1] EXCEPT !.validationError = Null])
    /\ ~LearnButtonShown(card[1][1])

\* The readings of card c differ from the extracted values d by more than 0.01.
Differs(c, d) ==
    \/ AbsDiffGt(c.readings.dryTemp, d.dryTemp, ChangeThreshold)
    \/ AbsDiffGt(c.readings.wetTemp, d.wetTemp, ChangeThreshold)

\* C12 (as claimed): after every edit that leaves dryTemp or wetTemp more
\* than 0.01 away from the extracted value, the card is marked corrected
\* and its calibrated flag is cleared, also when the edit makes
\* wetTemp > dryTemp.
C12_EditMarksCorrected ==
    \A s \in Tabs :
        (ev.op = "edit" /\ ev.tab = s /\ card[s] # None /\ data[s] # None
           /\ Differs(card[s][1], data[s][1]))
        => (card[s][1].isCorrected /\ ~card[s][1].hasLearned)

\* C13: a reset, from the review of a result (calibrated or not) or from
\* the error panel, leaves the session in IDLE with image, reading and
\* error message cleared and the card gone, and changes neither the
\* in-memory buffer nor the persisted record.
C13_ResetClearsSessionOnly ==
    [][\A s \in Tabs :
          (ev'.op = "reset" /\ ev'.tab = s /\ (appState[s] = "ERROR" \/ card[s] # None))
          => /\ appState'[s] = "IDLE"
             /\ image'[s] = Null /\ data'[s] = None /\ errorMsg'[s] = Null
             /\ card'[s] = None
             /\ trainingExamples' = trainingExamples
             /\ storage' = storage]_vars

\* C13 witness: a reset has been made after a commit (from the calibrated
\* state or later) and the committed exemplar is still in the buffer and
\* in the record.
C13_Witness ==
    /\ ev.op = "reset" /\ appState[1] = "IDLE" /\ image[1] = Null
    /\ committed # <<>> /\ size(trainingExamples[1]) > 0
    /\ storage # None /\ storage[1].kind = "json"
    /\ JSONparse(storage[1]) = trainingExamples[1]

\* The generateContent calls of tab s that were sent and have not settled.
InFlight(s) == {c \in calls[s] : c.request.ok}

\* C14 (as claimed): a session never has more than one extraction call in
\* flight, also when a second file is chosen before the first is read.
C14_OneExtractionInFlight ==
    \A s \in Tabs : Cardinality(InFlight(s)) <= 1

\* The transitions of the session state: IDLE -> ANALYZING by an image
\* selection, ANALYZING -> SUCCESS | ERROR by the outcome of the oracle call,
\* SUCCESS -> IDLE and ERROR -> IDLE by reset.
SpecifiedTransition(from, to, op) ==
    \/ from = "IDLE" /\ to = "ANALYZING" /\ op = "selected"
    \/ from = "ANALYZING" /\ to \in {"SUCCESS", "ERROR"} /\ op = "settle"
    \/ from \in {"SUCCESS", "ERROR"} /\ to = "IDLE" /\ op = "reset"

\* C15 (as claimed): while a session instance lives (a page load starts a
\* new one), its state changes only along the specified transitions.
C15_OnlySpecifiedTransitions ==
    [][\A s \in Tabs :
          (appState'[s] # appState[s] /\ ev'.op \notin {"open", "reload"})
          => SpecifiedTransition(appState[s], appState'[s], ev'.op)]_vars

\* C16 (as claimed): the recalculation never computes a dew point from a
\* relative humidity of 0: when the readings are consistent numbers and
\* the humidity clamps to 0, the dew point of the result is undefined.
C16_DewPointGuarded ==
    \A s \in Tabs :
        (card[s] # None /\ card[s][1].validationError = Null
           /\ card[s][1].result.relativeHumidity = Num(0))
        => card[s][1].result.dewPoint = Undefined

\* 0 <= rh <= 100 for a relative humidity in 0.1 %.
InPercentRange(rh) == IsNum(rh) /\ 0 <= rh.v /\ rh.v <= 1000

\* C17 (as claimed): for all numbers dryTemp and wetTemp, calculateHumidity
\* returns a number between 0 and 100; stated of every recalculation the
\* session makes for readings that are numbers.
C17_HumidityInRange ==
    \A s \in Tabs :
        (card[s] # None /\ card[s][1].validationError = Null
           /\ IsNum(card[s][1].readings.dryTemp) /\ IsNum(card[s][1].readings.wetTemp))
        => /\ card[s][1].result.relativeHumidity
                = calculateHumidity(card[s][1].readings.dryTemp,
                                    card[s][1].readings.wetTemp)
           /\ InPercentRange(card[s][1].result.relativeHumidity)

\* The exemplar part of a request matches exemplar e: its image data, and
\* its accepted readings written to one decimal (toFixed(1)).
CarriesExemplar(part, e) ==
    /\ part.data = StripDataUrl(e.imageUrl)
    /\ IsNum(e.correctedDry) /\ IsNum(e.correctedWet)
    /\ AbsDiffGt(Num(part.dry * 100), e.correctedDry, 50) = FALSE
    /\ AbsDiffGt(Num(part.wet * 100), e.correctedWet, 50) = FALSE

\* C18 (as claimed): every extraction an image selection starts carries
\* the selected image and exactly the last (most recently committed)
\* exemplar of the session's buffer as it is when handleImageSelected
\* runs, and no exemplar when that buffer is empty.
C18_RequestCarriesMostRecent ==
    [][\A s \in Tabs :
          (ev'.op = "selected" /\ ev'.tab = s /\ ev'.ok /\ readers'[s] # readers[s])
          => \E c \in calls'[s] :
                /\ c.image = image'[s]
                /\ c.request.target = StripDataUrl(image'[s])
                /\ IF size(trainingExamples[s]) = 0
                   THEN c.request.exemplar = None
                   ELSE /\ c.request.exemplar # None
                        /\ CarriesExemplar(c.request.exemplar[1],
                                           Last(Buffer(s)))]_vars

\* C19: every failure of an extraction (subject not recognized, a response
\* that cannot be used, a rejected call, a request that could not be
\* built) leaves the session in ERROR with a non-empty message; in ERROR a
\* reset is possible and leads to IDLE, where a file can be chosen again.
C19_FailureShowsMessageAndAllowsRetry ==
    [][\A s \in Tabs :
          /\ (ev'.op = "settle" /\ ev'.tab = s /\ ~ev'.ok /\ calls'[s] # calls[s])
             => /\ appState'[s] = "ERROR"
                /\ errorMsg'[s] # Null /\ errorMsg'[s] # ""
                /\ data'[s] = data[s]
          /\ (appState[s] = "ERROR" /\ Live(s)) => ENABLED handleReset(s)
          /\ (appState[s] = "ERROR" /\ ev'.op = "reset" /\ ev'.tab = s)
             => appState'[s] = "IDLE"
          /\ (appState[s] = "IDLE" /\ Live(s)) => ENABLED processFile(s, ImgA)]_vars

\* C19 witness: the oracle call was rejected with an empty message and the
\* session shows the default message in ERROR.
C19_Witness ==
    /\ ev.op = "settle" /\ ~ev.ok /\ ev.resp.kind = "reject" /\ ev.resp.msg = ""
    /\ appState[1] = "ERROR" /\ errorMsg[1] = MsgDefault

\* C20: the in-memory buffer and the persisted record are changed by no
\* step other than a commit (and the load of a page load): choosing a
\* file, starting an extraction, its success or failure, an edit and a
\* reset leave both unchanged; and a commit leaves every exemplar it keeps
\* as it was.
C20_OnlyCommitModifiesBuffer ==
    [][\A s \in Tabs :
          /\ ev'.op \in {"pick", "selected", "settle", "edit", "reset"}
             => (trainingExamples' = trainingExamples /\ storage' = storage)
          /\ (ev'.op = "learn" /\ ev'.tab = s /\ now' # now
                /\ IsArray(trainingExamples[s]) /\ IsArray(trainingExamples'[s]))
             => LET old == Buffer(s)
                    new == trainingExamples'[s].items
                IN  \A i \in 1..(Len(new) - 1) :
                       new[i] = old[Len(old) - (Len(new) - 1) + i]]_vars

\* C20 witness: an extraction has succeeded for a session whose buffer
\* holds committed exemplars, and the record still equals the buffer.
C20_Witness ==
    /\ ev.op = "settle" /\ ev.ok /\ appState[1] = "SUCCESS"
    /\ Len(committed) >= 2 /\ size(trainingExamples[1]) >= 2
    /\ storage # None /\ storage[1].kind = "json"
    /\ JSONparse(storage[1]) = trainingExamples[1]

\* C21: when every pending oracle call eventually settles, a session that
\* is in ANALYZING is eventually in SUCCESS or in ERROR.
C21_AnalyzingEventuallyEnds ==
    \A s \in Tabs :
        (appState[s] = "ANALYZING") ~> (appState[s] \in {"SUCCESS", "ERROR"})

\* C21 witness: the last pending call has settled and the session has left
\* ANALYZING for SUCCESS.
C21_Witness ==
    /\ ev.op = "settle" /\ calls[1] = {} /\ readers[1] = {}
    /\ appState[1] = "SUCCESS" /\ data[1] # None

C23_ReadingBelongsToImage ==
    [][\A s \in Tabs :
           (ev'.op = "settle" /\ ev'.tab = s /\ appState'[s] = "SUCCESS")
           => \A c \in calls[s] \ calls'[s] : c.image = image'[s]]_vars

\* C24: in every reachable state a session in SUCCESS holds an image and
\* a reading, a session in ERROR holds an error message, and a session in
\* IDLE holds no image, no reading and no error message.
C24_StateDeterminesFields ==
    \A s \in Tabs :
        /\ appState[s] = "SUCCESS" => (image[s] # Null /\ data[s] # None)
        /\ appState[s] = "ERROR" => errorMsg[s] # Null
        /\ appState[s] = "IDLE"
           => (image[s] = Null /\ data[s] = None /\ errorMsg[s] = Null)

\* C25: every exemplar committed to the buffer carries an image and has
\* numbers correctedWet <= correctedDry.
C25_ExemplarsConsistent ==
    \A s \in Tabs :
        \A i \in 1..size(trainingExamples[s]) :
            LET e == Buffer(s)[i]
            IN  IsExemplar(e)
                => /\ e.imageUrl \notin {Null, NoUrl}
                   /\ IsNum(e.correctedWet) /\ IsNum(e.correctedDry)
                   /\ e.correctedWet.v <= e.correctedDry.v

\* C26: a commit (a click on Learn that adds an exemplar to the buffer)
\* happens only while the reading is corrected, not calibrated and free of
\* validation error, its values differ from the extracted ones, and it
\* sets the calibrated flag; a set calibrated flag is cleared only by an
\* edit. Hence no unedited reading is committed and no second commit
\* follows a commit without an edit in between.
C26_CommitOnlyWhenCorrected ==
    [][\A s \in Tabs :
          /\ (ev'.op = "learn" /\ ev'.tab = s
                /\ trainingExamples'[s] # trainingExamples[s])
             => /\ card[s] # None /\ data[s] # None
                /\ LearnButtonShown(card[s][1])
                /\ Differs(card[s][1], data[s][1])
                /\ card'[s] # None /\ card'[s][1].hasLearned
          /\ (card[s] # None /\ card'[s] # None
                /\ card[s][1].hasLearned /\ ~card'[s][1].hasLearned)
             => ev'.op = "edit"]_vars

====
